---------------------------- MODULE Spec2Model ----------------------------
(***************************************************************************)
(* The retrieval core of the RAG demos (demo/observability/knowledge_base  *)
(* and demo/rag-qa/knowledge_base): the embedding cache, get_embedding,    *)
(* cosine_similarity and get_most_relevant_document.                       *)
(*                                                                         *)
(* Texts, model identifiers and cache keys are strings.  An embedding is a *)
(* tuple of integers; the vectors the embedding service answers with have  *)
(* integer Euclidean norms, so that a cosine similarity is an exact        *)
(* fraction num/den and the comparisons of the sort are exact.             *)
(***************************************************************************)
EXTENDS Integers, Sequences, FiniteSets, TLC

VARIABLES
    DOCUMENTS,        \* the document collection of the module
    embedding_cache,  \* _embedding_cache: cache key -> embedding
    last,             \* the call that has just ended and how it ended, until
                      \*   the caller has taken its result
    firstStored,      \* history: (model, prefix) -> text and vector of the
                      \*   first successful service call for that pair
    firstReturned,    \* history: (text, model) -> vector and number of service
                      \*   calls of the first successful get_embedding call
    threads           \* the get_embedding calls that run concurrently: for
                      \*   each thread, where it is in the function

vars == <<DOCUMENTS, embedding_cache, last, firstStored, firstReturned, threads>>

---------------------------------------------------------------------------
(* Bounds and program constants *)

\* text[:100]
PrefixLen == 100

\* top_k ranges over -MaxTopK .. MaxTopK
MaxTopK == 6

DefaultModel == "text-embedding-3-small"

Models == {DefaultModel}

RECURSIVE Pad(_)
Pad(n) == IF n = 0 THEN "" ELSE "a" \o Pad(n - 1)

\* two texts that agree on their first PrefixLen characters and differ after
LongX == Pad(PrefixLen) \o "x"
LongY == Pad(PrefixLen) \o "y"

ShortQuery == "what is RAG?"

Queries == {ShortQuery, LongX, LongY}

TopKs == (0 - MaxTopK) .. MaxTopK

\* What the embedding service may answer with.  The vectors have integer,
\* positive norms (1 and 5): an embedding is never the zero vector, so every
\* score of a ranking is a number.  A document text is answered with one of
\* two vectors of the model's dimensionality, any other text with one of that
\* dimensionality or with a vector of another dimensionality.
DocVectors == {<<1, 0>>, <<3, 4>>}

QueryVectors == {<<1, 0>>, <<1>>}

\* the vectors of the warmed caches of SpecRanking: four score levels
RankingVectors == {<<1, 0>>, <<0, 1>>, <<3, 4>>, <<4, 3>>}

ServiceErrors == {"NetworkError", "QuotaError"}

\* the DOCUMENTS literal (titles and contents abridged to ASCII text of the
\* same lengths as the source's)
SourceDocuments ==
  << [id |-> "doc1", title |-> "PythonABC",
      content |-> "Python is a programming language created by Guido van Rossum in 1991, with a concise readable sy"],
     [id |-> "doc2", title |-> "FastAPI_ov",
      content |-> "FastAPI is a modern web framework for building APIs with Python, with high performance and auto "],
     [id |-> "doc3", title |-> "RAG_arch",
      content |-> "RAG (Retrieval-Augmented Generation) combines retrieval and generation: it retrieves relevant documents firs"],
     [id |-> "doc4", title |-> "Vector_DB",
      content |-> "A vector database stores embedding vectors and performs similarity search: Pinecone, Weaviat"],
     [id |-> "doc5", title |-> "Prompt_eng",
      content |-> "Prompt engineering designs the input prompt to get the desired output from an LLM: ins"] >>

\* doc_text = f"{doc['title']}\n{doc['content']}"
DocText(doc) == doc.title \o "\n" \o doc.content

DocTexts == {DocText(SourceDocuments[i]) : i \in 1 .. Len(SourceDocuments)}

EmbedVectors(text) == IF text \in DocTexts THEN DocVectors ELSE QueryVectors

Min(a, b) == IF a < b THEN a ELSE b
Max(a, b) == IF a > b THEN a ELSE b

---------------------------------------------------------------------------
(* get_embedding *)

\* mutant: the key holds the whole text
CacheKeyFullText(model, text) == model \o ":" \o text

\* cache_key = f"{model}:{text[:100]}"
CacheKey(model, text) ==
    model \o ":" \o SubSeq(text, 1, Min(PrefixLen, Len(text)))

\* mutant: the store replaces the cache by the one new entry
StoreOnlyLatest(cache, key, embedding) == [k \in {key} |-> embedding]

\* mutant: the store is forgotten
StoreNothing(cache, key, embedding) == cache

\* mutant: an embedding is stored only under a short key
StoreUnderShortKey(cache, key, embedding) ==
    IF Len(key) > 64
    THEN cache
    ELSE [k \in DOMAIN cache \cup {key} |->
            IF k = key THEN embedding ELSE cache[k]]

\* _embedding_cache[cache_key] = embedding
StoreEmbedding(cache, key, embedding) ==
    [k \in DOMAIN cache \cup {key} |->
        IF k = key THEN embedding ELSE cache[k]]

\* one call of client.embeddings.create: the vector of the response, or the
\* exception the client raises
ServiceCall(text, model, ok, vector, error) ==
    [text |-> text, model |-> model, ok |-> ok, vector |-> vector, error |-> error]

EmbeddingsCreate(text, model) ==
    {ServiceCall(text, model, TRUE, v, "") : v \in EmbedVectors(text)}
      \cup {ServiceCall(text, model, FALSE, <<>>, e) : e \in ServiceErrors}

\* mutant: no cache lookup, every call asks the service
get_embedding_always_calls(cache, text, model) ==
    {IF response.ok
     THEN [cache |-> [k \in DOMAIN cache \cup {model \o ":" \o SubSeq(text, 1, Min(100, Len(text)))} |->
                        IF k = model \o ":" \o SubSeq(text, 1, Min(100, Len(text)))
                        THEN response.vector ELSE cache[k]],
           calls |-> <<response>>, status |-> "ok",
           value |-> response.vector, error |-> ""]
     ELSE [cache |-> cache, calls |-> <<response>>, status |-> "raise",
           value |-> <<>>, error |-> response.error]
     : response \in {[text |-> text, model |-> model, ok |-> TRUE, vector |-> v, error |-> ""]
                       : v \in EmbedVectors(text)}
                    \cup {[text |-> text, model |-> model, ok |-> FALSE, vector |-> <<>>, error |-> e]
                       : e \in {"NetworkError", "QuotaError"}}}

\* mutant: a failed service call is tried once more
get_embedding_retry(cache, text, model) ==
    LET key == model \o ":" \o SubSeq(text, 1, Min(100, Len(text)))
        answers == {[text |-> text, model |-> model, ok |-> TRUE, vector |-> v, error |-> ""]
                       : v \in EmbedVectors(text)}
                   \cup {[text |-> text, model |-> model, ok |-> FALSE, vector |-> <<>>, error |-> e]
                       : e \in {"NetworkError", "QuotaError"}}
        done(calls) ==
            LET r == calls[Len(calls)] IN
            IF r.ok
            THEN [cache |-> [k \in DOMAIN cache \cup {key} |->
                               IF k = key THEN r.vector ELSE cache[k]],
                  calls |-> calls, status |-> "ok", value |-> r.vector, error |-> ""]
            ELSE [cache |-> cache, calls |-> calls, status |-> "raise",
                  value |-> <<>>, error |-> r.error]
    IN IF key \in DOMAIN cache
       THEN {[cache |-> cache, calls |-> <<>>, status |-> "ok",
              value |-> cache[key], error |-> ""]}
       ELSE {done(<<r1>>) : r1 \in {r \in answers : r.ok}}
              \cup {done(<<r1, r2>>) : r1 \in {r \in answers : ~r.ok}, r2 \in answers}

\* mutant: a failed service call empties the cache
get_embedding_evicts(cache, text, model) ==
    LET key == model \o ":" \o SubSeq(text, 1, Min(100, Len(text)))
        answers == {[text |-> text, model |-> model, ok |-> TRUE, vector |-> v, error |-> ""]
                       : v \in EmbedVectors(text)}
                   \cup {[text |-> text, model |-> model, ok |-> FALSE, vector |-> <<>>, error |-> e]
                       : e \in {"NetworkError", "QuotaError"}}
    IN IF key \in DOMAIN cache
       THEN {[cache |-> cache, calls |-> <<>>, status |-> "ok",
              value |-> cache[key], error |-> ""]}
       ELSE {IF r.ok
             THEN [cache |-> [k \in DOMAIN cache \cup {key} |->
                                IF k = key THEN r.vector ELSE cache[k]],
                   calls |-> <<r>>, status |-> "ok", value |-> r.vector, error |-> ""]
             ELSE [cache |-> [k \in {} |-> <<>>], calls |-> <<r>>, status |-> "raise",
                   value |-> <<>>, error |-> r.error]
             : r \in answers}

\* mutant: a failed service call leaves an empty vector under the key
get_embedding_stores_failure(cache, text, model) ==
    LET key == model \o ":" \o SubSeq(text, 1, Min(100, Len(text))) IN
    IF key \in DOMAIN cache
    THEN {[cache |-> cache, calls |-> <<>>, status |-> "ok",
           value |-> cache[key], error |-> ""]}
    ELSE {IF r.ok
          THEN [cache |-> [k \in DOMAIN cache \cup {key} |->
                             IF k = key THEN r.vector ELSE cache[k]],
                calls |-> <<r>>, status |-> "ok", value |-> r.vector, error |-> ""]
          ELSE [cache |-> [k \in DOMAIN cache \cup {key} |->
                             IF k = key THEN <<>> ELSE cache[k]],
                calls |-> <<r>>, status |-> "raise",
                value |-> <<>>, error |-> r.error]
          : r \in {[text |-> text, model |-> model, ok |-> TRUE, vector |-> v, error |-> ""]
                     : v \in EmbedVectors(text)}
                  \cup {[text |-> text, model |-> model, ok |-> FALSE, vector |-> <<>>, error |-> e]
                     : e \in {"NetworkError", "QuotaError"}}}

\* mutant: only document texts are served from the cache; any other text is
\* embedded anew and stored again
get_embedding_refreshes_queries(cache, text, model) ==
    LET key == model \o ":" \o SubSeq(text, 1, Min(100, Len(text))) IN
    IF key \in DOMAIN cache /\ text \in DocTexts
    THEN {[cache |-> cache, calls |-> <<>>, status |-> "ok",
           value |-> cache[key], error |-> ""]}
    ELSE {IF r.ok
          THEN [cache |-> [k \in DOMAIN cache \cup {key} |->
                             IF k = key THEN r.vector ELSE cache[k]],
                calls |-> <<r>>, status |-> "ok", value |-> r.vector, error |-> ""]
          ELSE [cache |-> cache, calls |-> <<r>>, status |-> "raise",
                value |-> <<>>, error |-> r.error]
          : r \in {[text |-> text, model |-> model, ok |-> TRUE, vector |-> v, error |-> ""]
                     : v \in EmbedVectors(text)}
                  \cup {[text |-> text, model |-> model, ok |-> FALSE, vector |-> <<>>, error |-> e]
                     : e \in {"NetworkError", "QuotaError"}}}

\* The outcomes of get_embedding(text, model) on cache: the cache after it,
\* the service calls it made, and the vector returned or the exception raised.
get_embedding(cache, text, model) ==
    LET cache_key == CacheKey(model, text) IN
    IF cache_key \in DOMAIN cache
    THEN {[cache |-> cache, calls |-> <<>>, status |-> "ok",
           value |-> cache[cache_key], error |-> ""]}
    ELSE {IF response.ok
          THEN [cache |-> StoreEmbedding(cache, cache_key, response.vector),
                calls |-> <<response>>, status |-> "ok",
                value |-> response.vector, error |-> ""]
          ELSE [cache |-> cache, calls |-> <<response>>, status |-> "raise",
                value |-> <<>>, error |-> response.error]
          : response \in EmbeddingsCreate(text, model)}

---------------------------------------------------------------------------
(* cosine_similarity *)

RECURSIVE Dot(_, _)
Dot(a, b) == IF Len(a) = 0 THEN 0 ELSE a[1] * b[1] + Dot(Tail(a), Tail(b))

\* np.linalg.norm on a vector whose norm is an integer
Norm(a) == CHOOSE n \in 0 .. Dot(a, a) : n * n = Dot(a, a)

\* mutant: the longer vector is cut to the length of the shorter one
cosine_similarity_truncates(a, b) ==
    LET n == IF Len(a) < Len(b) THEN Len(a) ELSE Len(b)
        x == SubSeq(a, 1, n)
        y == SubSeq(b, 1, n)
    IN [status |-> "ok", error |-> "", num |-> Dot(x, y),
        den |-> Norm(x) * Norm(y)]

\* np.dot raises ValueError on vectors of different lengths; otherwise the
\* quotient dot / (norm * norm), kept as the fraction num/den.  den = 0 is the
\* float nan (0.0 / 0.0).
cosine_similarity(a, b) ==
    IF Len(a) # Len(b)
    THEN [status |-> "raise", error |-> "ValueError", num |-> 0, den |-> 0]
    ELSE [status |-> "ok", error |-> "", num |-> Dot(a, b), den |-> Norm(a) * Norm(b)]

\* float comparison x < y of two scores; every comparison with nan is false
ScoreLess(x, y) == x.num * y.den < y.num * x.den

---------------------------------------------------------------------------
(* get_most_relevant_document *)

\* mutant: the sort is ascending (reverse=True is missing)
RECURSIVE InsertAscending(_, _)
InsertAscending(sorted, item) ==
    IF sorted = <<>> THEN <<item>>
    ELSE IF item[2].num * Head(sorted)[2].den < Head(sorted)[2].num * item[2].den
         THEN <<item>> \o sorted
         ELSE <<Head(sorted)>> \o InsertAscending(Tail(sorted), item)

RECURSIVE SortAscending(_)
SortAscending(similarities) ==
    IF similarities = <<>> THEN <<>>
    ELSE InsertAscending(SortAscending(SubSeq(similarities, 1, Len(similarities) - 1)),
                         similarities[Len(similarities)])

\* mutant: an item goes in front of the items of equal score (the sort is
\* descending, and not stable)
RECURSIVE InsertBeforeEqual(_, _)
InsertBeforeEqual(sorted, item) ==
    IF sorted = <<>> THEN <<item>>
    ELSE IF ~(item[2].num * Head(sorted)[2].den < Head(sorted)[2].num * item[2].den)
         THEN <<item>> \o sorted
         ELSE <<Head(sorted)>> \o InsertBeforeEqual(Tail(sorted), item)

\* similarities.sort(key=lambda x: x[1], reverse=True): a stable sort by
\* descending score.  Insert places an item behind every item whose score is
\* not less than its own.
RECURSIVE Insert(_, _)
Insert(sorted, item) ==
    IF sorted = <<>> THEN <<item>>
    ELSE IF ScoreLess(Head(sorted)[2], item[2])
         THEN <<item>> \o sorted
         ELSE <<Head(sorted)>> \o Insert(Tail(sorted), item)

RECURSIVE SortDescending(_)
SortDescending(similarities) ==
    IF similarities = <<>> THEN <<>>
    ELSE Insert(SortDescending(SubSeq(similarities, 1, Len(similarities) - 1)),
                similarities[Len(similarities)])

\* mutant: a top_k beyond the end of the list yields nothing
SliceWithinLength(seq, top_k) ==
    IF top_k > Len(seq) THEN <<>>
    ELSE IF top_k >= 0 THEN SubSeq(seq, 1, top_k)
    ELSE SubSeq(seq, 1, IF Len(seq) + top_k > 0 THEN Len(seq) + top_k ELSE 0)

\* similarities[:top_k], a Python slice: a negative top_k counts from the end
SliceTo(seq, top_k) ==
    IF top_k >= 0
    THEN SubSeq(seq, 1, Min(top_k, Len(seq)))
    ELSE SubSeq(seq, 1, Max(Len(seq) + top_k, 0))

\* what one get_embedding call of a request looked like from outside: its
\* arguments, how it ended, and the number of service calls it made
Fetch(text, model, e) ==
    [text |-> text, model |-> model, status |-> e.status, value |-> e.value,
     ncalls |-> Len(e.calls)]

\* mutant: a failed document is skipped and the rest is ranked
RECURSIVE ScoreDocumentsSkipFailed(_, _, _, _, _, _, _)
ScoreDocumentsSkipFailed(docs, i, query_embedding, cache, calls, fetched, similarities) ==
    IF i > Len(docs)
    THEN {[cache |-> cache, calls |-> calls, fetched |-> fetched,
           status |-> "ok", error |-> "", similarities |-> similarities]}
    ELSE UNION {
           LET seen == Append(fetched, Fetch(DocText(docs[i]), DefaultModel, e)) IN
           IF e.status = "raise"
           THEN ScoreDocumentsSkipFailed(docs, i + 1, query_embedding, e.cache,
                                         calls \o e.calls, seen, similarities)
           ELSE LET similarity == cosine_similarity(query_embedding, e.value) IN
                IF similarity.status = "raise"
                THEN {[cache |-> e.cache, calls |-> calls \o e.calls,
                       fetched |-> seen, status |-> "raise",
                       error |-> similarity.error, similarities |-> <<>>]}
                ELSE ScoreDocumentsSkipFailed(docs, i + 1, query_embedding, e.cache,
                                              calls \o e.calls, seen,
                                              Append(similarities, <<docs[i], similarity>>))
           : e \in get_embedding(cache, DocText(docs[i]), DefaultModel) }

\* mutant: a ranking needs at least one document
RECURSIVE ScoreDocumentsNonEmpty(_, _, _, _, _, _, _)
ScoreDocumentsNonEmpty(docs, i, query_embedding, cache, calls, fetched, similarities) ==
    IF i > Len(docs)
    THEN {[cache |-> cache, calls |-> calls, fetched |-> fetched,
           status |-> IF docs = <<>> THEN "raise" ELSE "ok",
           error |-> IF docs = <<>> THEN "IndexError" ELSE "",
           similarities |-> similarities]}
    ELSE UNION {
           LET seen == Append(fetched, Fetch(DocText(docs[i]), DefaultModel, e)) IN
           IF e.status = "raise"
           THEN {[cache |-> e.cache, calls |-> calls \o e.calls, fetched |-> seen,
                  status |-> "raise", error |-> e.error, similarities |-> <<>>]}
           ELSE LET similarity == cosine_similarity(query_embedding, e.value) IN
                IF similarity.status = "raise"
                THEN {[cache |-> e.cache, calls |-> calls \o e.calls,
                       fetched |-> seen, status |-> "raise",
                       error |-> similarity.error, similarities |-> <<>>]}
                ELSE ScoreDocumentsNonEmpty(docs, i + 1, query_embedding, e.cache,
                                            calls \o e.calls, seen,
                                            Append(similarities, <<docs[i], similarity>>))
           : e \in get_embedding(cache, DocText(docs[i]), DefaultModel) }

\* mutant: the documents are fetched from the last one to the first
RECURSIVE ScoreDocumentsBackwards(_, _, _, _, _, _, _)
ScoreDocumentsBackwards(docs, i, query_embedding, cache, calls, fetched, similarities) ==
    IF i > Len(docs)
    THEN {[cache |-> cache, calls |-> calls, fetched |-> fetched,
           status |-> "ok", error |-> "", similarities |-> similarities]}
    ELSE LET doc == docs[Len(docs) + 1 - i] IN
         UNION {
           LET seen == Append(fetched, Fetch(DocText(doc), DefaultModel, e)) IN
           IF e.status = "raise"
           THEN {[cache |-> e.cache, calls |-> calls \o e.calls, fetched |-> seen,
                  status |-> "raise", error |-> e.error, similarities |-> <<>>]}
           ELSE LET similarity == cosine_similarity(query_embedding, e.value) IN
                IF similarity.status = "raise"
                THEN {[cache |-> e.cache, calls |-> calls \o e.calls,
                       fetched |-> seen, status |-> "raise",
                       error |-> similarity.error, similarities |-> <<>>]}
                ELSE ScoreDocumentsBackwards(docs, i + 1, query_embedding, e.cache,
                                             calls \o e.calls, seen,
                                             <<<<doc, similarity>>>> \o similarities)
           : e \in get_embedding(cache, DocText(doc), DefaultModel) }

\* The for loop over DOCUMENTS from document i on: the outcomes of the rest
\* of the loop.
RECURSIVE ScoreDocuments(_, _, _, _, _, _, _)
ScoreDocuments(docs, i, query_embedding, cache, calls, fetched, similarities) ==
    IF i > Len(docs)
    THEN {[cache |-> cache, calls |-> calls, fetched |-> fetched,
           status |-> "ok", error |-> "", similarities |-> similarities]}
    ELSE LET doc_text == DocText(docs[i]) IN
         UNION {
           LET seen == Append(fetched, Fetch(doc_text, DefaultModel, e)) IN
           IF e.status = "raise"
           THEN {[cache |-> e.cache, calls |-> calls \o e.calls, fetched |-> seen,
                  status |-> "raise", error |-> e.error, similarities |-> <<>>]}
           ELSE LET similarity == cosine_similarity(query_embedding, e.value) IN
                IF similarity.status = "raise"
                THEN {[cache |-> e.cache, calls |-> calls \o e.calls,
                       fetched |-> seen, status |-> "raise",
                       error |-> similarity.error, similarities |-> <<>>]}
                ELSE ScoreDocuments(docs, i + 1, query_embedding, e.cache,
                                    calls \o e.calls, seen,
                                    Append(similarities, <<docs[i], similarity>>))
           : e \in get_embedding(cache, doc_text, DefaultModel) }

\* mutant: a top_k beyond the end of the list starts over at the top
RankedDocumentsCycles(similarities, top_k) ==
    LET sorted == SortDescending(similarities) IN
    IF top_k > Len(sorted) /\ Len(sorted) > 0
    THEN [i \in 1 .. top_k |-> sorted[((i - 1) % Len(sorted)) + 1][1]]
    ELSE LET top == SliceTo(sorted, top_k) IN
         [i \in 1 .. Len(top) |-> top[i][1]]

\* [doc for doc, _ in similarities[:top_k]]
RankedDocuments(similarities, top_k) ==
    LET top == SliceTo(SortDescending(similarities), top_k) IN
    [i \in 1 .. Len(top) |-> top[i][1]]

\* mutant: the documents are fetched before the failure of the query
\* embedding is raised
get_most_relevant_document_fetches_all(docs, cache, query, top_k) ==
    UNION {
        IF q.status = "raise"
        THEN {[cache |-> r.cache, calls |-> r.calls, fetched |-> r.fetched,
               status |-> "raise", error |-> q.error, value |-> <<>>,
               scores |-> <<>>]
              : r \in ScoreDocuments(docs, 1, <<1, 0>>, q.cache, q.calls,
                                     <<Fetch(query, DefaultModel, q)>>, <<>>)}
        ELSE {[cache |-> r.cache, calls |-> r.calls, fetched |-> r.fetched,
               status |-> r.status, error |-> r.error,
               value |-> IF r.status = "ok"
                         THEN RankedDocuments(r.similarities, top_k) ELSE <<>>,
               scores |-> [i \in 1 .. Len(r.similarities) |-> r.similarities[i][2]]]
              : r \in ScoreDocuments(docs, 1, q.value, q.cache, q.calls,
                                     <<Fetch(query, DefaultModel, q)>>, <<>>)}
        : q \in get_embedding(cache, query, DefaultModel) }

\* mutant: a failing call puts the cache back as it was when the call began
get_most_relevant_document_rolls_back(docs, cache, query, top_k) ==
    UNION {
        IF q.status = "raise"
        THEN {[cache |-> cache, calls |-> q.calls,
               fetched |-> <<Fetch(query, DefaultModel, q)>>,
               status |-> "raise", error |-> q.error, value |-> <<>>,
               scores |-> <<>>]}
        ELSE {[cache |-> IF r.status = "ok" THEN r.cache ELSE cache,
               calls |-> r.calls, fetched |-> r.fetched,
               status |-> r.status, error |-> r.error,
               value |-> IF r.status = "ok"
                         THEN RankedDocuments(r.similarities, top_k) ELSE <<>>,
               scores |-> [i \in 1 .. Len(r.similarities) |-> r.similarities[i][2]]]
              : r \in ScoreDocuments(docs, 1, q.value, q.cache, q.calls,
                                     <<Fetch(query, DefaultModel, q)>>, <<>>)}
        : q \in get_embedding(cache, query, DefaultModel) }

\* The outcomes of get_most_relevant_document(query, top_k).  scores is the
\* similarities list before the sort, in collection order.
get_most_relevant_document(docs, cache, query, top_k) ==
    UNION {
        IF q.status = "raise"
        THEN {[cache |-> q.cache, calls |-> q.calls,
               fetched |-> <<Fetch(query, DefaultModel, q)>>,
               status |-> "raise", error |-> q.error, value |-> <<>>,
               scores |-> <<>>]}
        ELSE {[cache |-> r.cache, calls |-> r.calls, fetched |-> r.fetched,
               status |-> r.status, error |-> r.error,
               value |-> IF r.status = "ok"
                         THEN RankedDocuments(r.similarities, top_k) ELSE <<>>,
               scores |-> [i \in 1 .. Len(r.similarities) |-> r.similarities[i][2]]]
              : r \in ScoreDocuments(docs, 1, q.value, q.cache, q.calls,
                                     <<Fetch(query, DefaultModel, q)>>, <<>>)}
        : q \in get_embedding(cache, query, DefaultModel) }

---------------------------------------------------------------------------
(* The state machine: the caller calls one of the two functions, the call  *)
(* runs to its end, and the caller takes what it returned or raised.       *)

EmptyMap == [k \in {} |-> <<>>]

NoCall ==
    [op |-> "none", text |-> "", model |-> "", top_k |-> 0, status |-> "ok",
     value |-> <<>>, error |-> "", calls |-> <<>>, fetched |-> <<>>,
     scores |-> <<>>]

\* the pair (model identifier, first 100 characters of the text)
PrefixPair(model, text) == <<model, SubSeq(text, 1, Min(100, Len(text)))>>

\* history: the first successful service call of each (model, prefix) pair
RECURSIVE RecordStored(_, _)
RecordStored(first, calls) ==
    IF calls = <<>> THEN first
    ELSE LET c == Head(calls)
             key == PrefixPair(c.model, c.text)
         IN RecordStored(
              IF c.ok /\ key \notin DOMAIN first
              THEN [k \in DOMAIN first \cup {key} |->
                      IF k = key THEN [text |-> c.text, vector |-> c.vector]
                      ELSE first[k]]
              ELSE first,
              Tail(calls))

\* history: the first successful get_embedding call of each (text, model)
RECURSIVE RecordReturned(_, _)
RecordReturned(ret, fetched) ==
    IF fetched = <<>> THEN ret
    ELSE LET f == Head(fetched)
             pair == <<f.text, f.model>>
         IN RecordReturned(
              IF f.status = "ok" /\ pair \notin DOMAIN ret
              THEN [p \in DOMAIN ret \cup {pair} |->
                      IF p = pair THEN [vector |-> f.value, ncalls |-> f.ncalls]
                      ELSE ret[p]]
              ELSE ret,
              Tail(fetched))

\* the threads that may call get_embedding at the same time
NumThreads == 3

Threads == 1 .. NumThreads

\* a thread that is not inside get_embedding
Idle ==
    [pc |-> "idle", text |-> "", model |-> "", calls |-> <<>>,
     status |-> "", value |-> <<>>, error |-> ""]

NoThreads == [t \in Threads |-> Idle]

\* the module is loaded with a document collection: the source's five
\* documents, or the first few of them
Init ==
    /\ DOCUMENTS \in {SubSeq(SourceDocuments, 1, n) : n \in 0 .. Len(SourceDocuments)}
    /\ embedding_cache = EmptyMap
    /\ last = NoCall
    /\ firstStored = EmptyMap
    /\ firstReturned = EmptyMap
    /\ threads = NoThreads

CallGetEmbedding(text, model) ==
    /\ last.op = "none"
    /\ \E out \in get_embedding(embedding_cache, text, model) :
        /\ embedding_cache' = out.cache
        /\ last' = [op |-> "get_embedding", text |-> text, model |-> model,
                    top_k |-> 0, status |-> out.status, value |-> out.value,
                    error |-> out.error, calls |-> out.calls,
                    fetched |-> <<Fetch(text, model, out)>>, scores |-> <<>>]
        /\ firstStored' = RecordStored(firstStored, out.calls)
        /\ firstReturned' = RecordReturned(firstReturned, <<Fetch(text, model, out)>>)
    /\ UNCHANGED <<DOCUMENTS, threads>>

\* mutant: the ranking sorts the collection itself
CallGetMostRelevantDocumentInPlace(query, top_k) ==
    /\ last.op = "none"
    /\ \E out \in get_most_relevant_document(DOCUMENTS, embedding_cache, query, top_k) :
        /\ embedding_cache' = out.cache
        /\ last' = [op |-> "get_most_relevant_document", text |-> query,
                    model |-> DefaultModel, top_k |-> top_k,
                    status |-> out.status, value |-> out.value,
                    error |-> out.error, calls |-> out.calls,
                    fetched |-> out.fetched, scores |-> out.scores]
        /\ firstStored' = RecordStored(firstStored, out.calls)
        /\ firstReturned' = RecordReturned(firstReturned, out.fetched)
        /\ DOCUMENTS' =
             IF out.status = "ok"
             THEN RankedDocuments([i \in 1 .. Len(DOCUMENTS) |->
                                     <<DOCUMENTS[i], out.scores[i]>>],
                                  Len(DOCUMENTS))
             ELSE DOCUMENTS
    /\ UNCHANGED threads

CallGetMostRelevantDocument(query, top_k) ==
    /\ last.op = "none"
    /\ \E out \in get_most_relevant_document(DOCUMENTS, embedding_cache, query, top_k) :
        /\ embedding_cache' = out.cache
        /\ last' = [op |-> "get_most_relevant_document", text |-> query,
                    model |-> DefaultModel, top_k |-> top_k,
                    status |-> out.status, value |-> out.value,
                    error |-> out.error, calls |-> out.calls,
                    fetched |-> out.fetched, scores |-> out.scores]
        /\ firstStored' = RecordStored(firstStored, out.calls)
        /\ firstReturned' = RecordReturned(firstReturned, out.fetched)
    /\ UNCHANGED <<DOCUMENTS, threads>>

\* the caller has the result (or the exception) and goes on
ReturnToCaller ==
    /\ last.op # "none"
    /\ last' = NoCall
    /\ UNCHANGED <<DOCUMENTS, embedding_cache, firstStored, firstReturned, threads>>

Next ==
    \/ \E text \in Queries, model \in Models : CallGetEmbedding(text, model)
    \/ \E query \in Queries, top_k \in TopKs :
           CallGetMostRelevantDocument(query, top_k)
    \/ ReturnToCaller

Spec == Init /\ [][Next]_vars

---------------------------------------------------------------------------
(* Ranking over warmed caches: every document and the query are cached,    *)
(* with vectors of four score levels, and the caller ranks and re-ranks.   *)

WarmTexts == {ShortQuery} \cup DocTexts

WarmCaches ==
    {[k \in {CacheKey(DefaultModel, t) : t \in WarmTexts} |->
        IF k = CacheKey(DefaultModel, ShortQuery)
        THEN q
        ELSE v[CHOOSE i \in 1 .. Len(SourceDocuments) :
                 CacheKey(DefaultModel, DocText(SourceDocuments[i])) = k]]
     : q \in DocVectors, v \in [1 .. Len(SourceDocuments) -> RankingVectors]}

InitRanking ==
    /\ DOCUMENTS = SourceDocuments
    /\ embedding_cache \in WarmCaches
    /\ last = NoCall
    /\ firstStored =
         [p \in {PrefixPair(DefaultModel, t) : t \in WarmTexts} |->
            LET t == CHOOSE t \in WarmTexts : PrefixPair(DefaultModel, t) = p
            IN [text |-> t, vector |-> embedding_cache[CacheKey(DefaultModel, t)]]]
    /\ firstReturned =
         [p \in {<<t, DefaultModel>> : t \in WarmTexts} |->
            [vector |-> embedding_cache[CacheKey(DefaultModel, p[1])], ncalls |-> 1]]
    /\ threads = NoThreads

NextRanking ==
    \/ \E top_k \in TopKs : CallGetMostRelevantDocument(ShortQuery, top_k)
    \/ CallGetEmbedding(ShortQuery, DefaultModel)
    \/ ReturnToCaller

SpecRanking == InitRanking /\ [][NextRanking]_vars

---------------------------------------------------------------------------
(* float64 arithmetic.  A natural number of any size is the sequence of    *)
(* its digits in base 2^LimbBits, lowest first, without leading zeros      *)
(* (<<>> is 0).  A float is nan, an infinity, or sign * mant * 2^exp with  *)
(* mant zero or of MantissaBits bits.  An operation rounds its exact       *)
(* result to the nearest float, ties to even; the numbers met here are far *)
(* from the overflow and underflow ranges.                                 *)

\* the significand of a float64
MantissaBits == 53

LimbBits == 15

RECURSIVE Pow2(_)
Pow2(e) == IF e = 0 THEN 1 ELSE 2 * Pow2(e - 1)

Base == Pow2(LimbBits)

RECURSIVE Big(_)
Big(n) == IF n = 0 THEN <<>> ELSE <<n % Base>> \o Big(n \div Base)

RECURSIVE Trim(_)
Trim(x) ==
    IF x = <<>> \/ x[Len(x)] # 0 THEN x ELSE Trim(SubSeq(x, 1, Len(x) - 1))

Limb(x, i) == IF i <= Len(x) THEN x[i] ELSE 0

\* x + y + carry, from digit i on
RECURSIVE AddFrom(_, _, _, _)
AddFrom(x, y, i, carry) ==
    IF i > Len(x) /\ i > Len(y)
    THEN IF carry = 0 THEN <<>> ELSE <<carry>>
    ELSE LET s == Limb(x, i) + Limb(y, i) + carry
         IN <<s % Base>> \o AddFrom(x, y, i + 1, s \div Base)

\* 2 * x + bit
Twice(x, bit) == AddFrom(x, x, 1, bit)

RECURSIVE SubFrom(_, _, _, _)
SubFrom(x, y, i, borrow) ==
    IF i > Len(x)
    THEN <<>>
    ELSE LET d == Limb(x, i) - Limb(y, i) - borrow
         IN <<(d + Base) % Base>> \o SubFrom(x, y, i + 1, IF d < 0 THEN 1 ELSE 0)

\* x - y for x >= y
BigSub(x, y) == Trim(SubFrom(x, y, 1, 0))

BigLess(x, y) ==
    \/ Len(x) < Len(y)
    \/ /\ Len(x) = Len(y)
       /\ \E i \in 1 .. Len(x) :
            /\ x[i] < y[i]
            /\ \A j \in i + 1 .. Len(x) : x[j] = y[j]

\* x * d + carry for one digit d, from digit i of x on
RECURSIVE MulLimbFrom(_, _, _, _)
MulLimbFrom(x, d, i, carry) ==
    IF i > Len(x)
    THEN IF carry = 0 THEN <<>> ELSE <<carry>>
    ELSE LET p == x[i] * d + carry
         IN <<p % Base>> \o MulLimbFrom(x, d, i + 1, p \div Base)

RECURSIVE BigMul(_, _)
BigMul(x, y) ==
    IF x = <<>> \/ y = <<>>
    THEN <<>>
    ELSE LET rest == BigMul(x, Tail(y))
         IN AddFrom(Trim(MulLimbFrom(x, y[1], 1, 0)),
                    IF rest = <<>> THEN <<>> ELSE <<0>> \o rest, 1, 0)

\* x div 2
Halve(x) ==
    Trim([i \in 1 .. Len(x) |->
            x[i] \div 2 + (Limb(x, i + 1) % 2) * (Base \div 2)])

RECURSIVE SmallBitLen(_)
SmallBitLen(n) == IF n = 0 THEN 0 ELSE 1 + SmallBitLen(n \div 2)

\* the number of bits of x
BitLen(x) ==
    IF x = <<>> THEN 0 ELSE LimbBits * (Len(x) - 1) + SmallBitLen(x[Len(x)])

\* bit i of x, bit 0 the lowest
BitAt(x, i) == (Limb(x, i \div LimbBits + 1) \div Pow2(i % LimbBits)) % 2

NaN == [class |-> "nan", sign |-> 1, mant |-> <<>>, exp |-> 0]

Infinity(sign) == [class |-> "inf", sign |-> sign, mant |-> <<>>, exp |-> 0]

Finite(sign, mant, exp) ==
    [class |-> "finite", sign |-> sign, mant |-> mant, exp |-> exp]

FloatZero == Finite(1, <<>>, 0)

\* the float nearest to sign * q * 2^exp, or to a number between that and
\* sign * (q + 1) * 2^exp when sticky holds; q has MantissaBits + 1 bits
RoundHalfEven(sign, q, sticky, exp) ==
    LET top == Halve(q)
        up == q[1] % 2 = 1 /\ (sticky \/ top[1] % 2 = 1)
        m == IF up THEN AddFrom(top, <<>>, 1, 1) ELSE top
    IN IF BitLen(m) > MantissaBits
       THEN Finite(sign, Halve(m), exp + 2)
       ELSE Finite(sign, m, exp + 1)

\* One step of the long division of m by d: the next bit of m (a zero after
\* its last bit) is brought down and the next bit of the quotient is found.
DivStep(m, d, st) ==
    LET i == BitLen(m) - st.steps - 1
        r == Twice(st.rem, IF i >= 0 THEN BitAt(m, i) ELSE 0)
    IN IF BigLess(r, d)
       THEN [rem |-> r, quot |-> Twice(st.quot, 0), steps |-> st.steps + 1]
       ELSE [rem |-> BigSub(r, d), quot |-> Twice(st.quot, 1),
             steps |-> st.steps + 1]

\* at most n steps of the division, until the quotient has
\* MantissaBits + 1 bits
RECURSIVE DivRun(_, _, _, _)
DivRun(m, d, st, n) ==
    IF n = 0 \/ BitLen(st.quot) = MantissaBits + 1
    THEN st
    ELSE DivRun(m, d, DivStep(m, d, st), n - 1)

RECURSIVE DivAll(_, _, _)
DivAll(m, d, st) ==
    IF BitLen(st.quot) = MantissaBits + 1
    THEN st
    ELSE DivAll(m, d, DivRun(m, d, st, 8))

\* the float nearest to sign * (m / d) * 2^exp, for m > 0 and d > 0
RoundedQuotient(sign, m, d, exp) ==
    LET st == DivAll(m, d, [rem |-> <<>>, quot |-> <<>>, steps |-> 0])
        left == BitLen(m) - st.steps
        sticky == \/ st.rem # <<>>
                  \/ \E i \in 0 .. left - 1 : BitAt(m, i) = 1
    IN RoundHalfEven(sign, st.quot, sticky, exp + left)

\* One step of the square root of the natural number n: the next two bits
\* of n (zeros after its last bit) are brought down and the next bit of the
\* root is found.
SqrtStep(n, st) ==
    LET shift == 2 * ((SmallBitLen(n) + 1) \div 2 - st.steps - 1)
        pair == IF shift >= 0 THEN (n \div Pow2(shift)) % 4 ELSE 0
        r == Twice(Twice(st.rem, pair \div 2), pair % 2)
        trial == Twice(Twice(st.root, 0), 1)
    IN IF BigLess(r, trial)
       THEN [rem |-> r, root |-> Twice(st.root, 0), steps |-> st.steps + 1]
       ELSE [rem |-> BigSub(r, trial), root |-> Twice(st.root, 1),
             steps |-> st.steps + 1]

RECURSIVE SqrtRun(_, _, _)
SqrtRun(n, st, k) ==
    IF k = 0 \/ BitLen(st.root) = MantissaBits + 1
    THEN st
    ELSE SqrtRun(n, SqrtStep(n, st), k - 1)

RECURSIVE SqrtAll(_, _)
SqrtAll(n, st) ==
    IF BitLen(st.root) = MantissaBits + 1
    THEN st
    ELSE SqrtAll(n, SqrtRun(n, st, 8))

\* float(n) of an integer n
FloatOfInt(n) ==
    IF n = 0
    THEN FloatZero
    ELSE IF n < 0
    THEN RoundedQuotient(0 - 1, Big(0 - n), <<1>>, 0)
    ELSE RoundedQuotient(1, Big(n), <<1>>, 0)

\* sqrt(n) of a natural number n
FloatSqrt(n) ==
    IF n = 0
    THEN FloatZero
    ELSE LET st == SqrtAll(n, [rem |-> <<>>, root |-> <<>>, steps |-> 0])
         IN RoundHalfEven(1, st.root, st.rem # <<>>,
                          (SmallBitLen(n) + 1) \div 2 - st.steps)

\* x * y of two floats that are not infinite
FloatMul(x, y) ==
    IF x.class = "nan" \/ y.class = "nan"
    THEN NaN
    ELSE IF x.mant = <<>> \/ y.mant = <<>>
    THEN FloatZero
    ELSE RoundedQuotient(x.sign * y.sign, BigMul(x.mant, y.mant), <<1>>,
                         x.exp + y.exp)

\* x / y of two floats that are not infinite: 0 / 0 is nan, any other x / 0
\* an infinity
FloatDiv(x, y) ==
    IF x.class = "nan" \/ y.class = "nan" \/ (x.mant = <<>> /\ y.mant = <<>>)
    THEN NaN
    ELSE IF y.mant = <<>>
    THEN Infinity(x.sign * y.sign)
    ELSE IF x.mant = <<>>
    THEN FloatZero
    ELSE RoundedQuotient(x.sign * y.sign, x.mant, y.mant, x.exp - y.exp)

\* mutant: the dot product is divided by the norm of the first vector only
cosine_similarity_float_one_norm(a, b) ==
    IF Len(a) # Len(b)
    THEN [status |-> "raise", error |-> "ValueError", value |-> NaN]
    ELSE [status |-> "ok", error |-> "",
          value |-> FloatDiv(FloatOfInt(Dot(a, b)), FloatSqrt(Dot(a, a)))]

\* float(np.dot(a_np, b_np) / (np.linalg.norm(a_np) * np.linalg.norm(b_np)))
\* of two vectors of integers, in float64
cosine_similarity_float(a, b) ==
    IF Len(a) # Len(b)
    THEN [status |-> "raise", error |-> "ValueError", value |-> NaN]
    ELSE [status |-> "ok", error |-> "",
          value |-> FloatDiv(FloatOfInt(Dot(a, b)),
                             FloatMul(FloatSqrt(Dot(a, a)), FloatSqrt(Dot(b, b))))]

---------------------------------------------------------------------------
(* cosine_similarity on its own: the caller passes two vectors of          *)
(* integers.                                                               *)

CosineVectors ==
    {<<1, 0>>, <<0, 1>>, <<0 - 1, 0>>, <<1, 1>>, <<0 - 1, 0 - 1>>, <<3, 4>>,
     <<0 - 3, 0 - 4>>, <<4, 0 - 3>>, <<1, 5>>, <<2, 3, 6>>, <<0, 0>>, <<1>>}

CallCosineSimilarity(a, b) ==
    /\ last.op = "none"
    /\ LET out == cosine_similarity_float(a, b)
       IN last' = [op |-> "cosine_similarity", a |-> a, b |-> b,
                   status |-> out.status, error |-> out.error,
                   value |-> out.value]
    /\ UNCHANGED <<DOCUMENTS, embedding_cache, firstStored, firstReturned, threads>>

\* the module as loaded, with the five documents of the source
InitLoaded ==
    /\ DOCUMENTS = SourceDocuments
    /\ embedding_cache = EmptyMap
    /\ last = NoCall
    /\ firstStored = EmptyMap
    /\ firstReturned = EmptyMap
    /\ threads = NoThreads

NextCosine ==
    \/ \E a \in CosineVectors, b \in CosineVectors : CallCosineSimilarity(a, b)
    \/ ReturnToCaller

SpecCosine == InitLoaded /\ [][NextCosine]_vars

---------------------------------------------------------------------------
(* The empty query: the caller passes "" to the two functions.             *)

EmptyQuery == ""

NextEmptyQuery ==
    \/ \E top_k \in TopKs : CallGetMostRelevantDocument(EmptyQuery, top_k)
    \/ CallGetEmbedding(EmptyQuery, DefaultModel)
    \/ ReturnToCaller

SpecEmptyQuery == Init /\ [][NextEmptyQuery]_vars

---------------------------------------------------------------------------
(* get_embedding with more than one model: the caller passes a model       *)
(* identifier with or without a colon in it.                               *)

PlainModel == "ft"

ColonModel == "ft:emb"

KeyModels == {PlainModel, ColonModel}

KeyTexts == {"q", "emb:q", ShortQuery}

NextModels ==
    \/ \E text \in KeyTexts, model \in KeyModels : CallGetEmbedding(text, model)
    \/ ReturnToCaller

SpecModels == InitLoaded /\ [][NextModels]_vars

---------------------------------------------------------------------------
(* get_embedding called from several threads at once.  The function takes  *)
(* no lock: a thread looks the key up, and on a miss it waits for the      *)
(* service and then stores the answer, and the other threads run between   *)
(* these steps.  Each lookup and each store of the dictionary is atomic.   *)

\* cache_key = ...; if cache_key in _embedding_cache: return ...
ThreadLooksUp(t, text, model) ==
    /\ threads[t].pc = "idle"
    /\ LET cache_key == CacheKey(model, text) IN
       threads' = [threads EXCEPT ![t] =
                     IF cache_key \in DOMAIN embedding_cache
                     THEN [pc |-> "done", text |-> text, model |-> model,
                           calls |-> <<>>, status |-> "ok",
                           value |-> embedding_cache[cache_key], error |-> ""]
                     ELSE [pc |-> "calling", text |-> text, model |-> model,
                           calls |-> <<>>, status |-> "", value |-> <<>>,
                           error |-> ""]]
    /\ UNCHANGED <<DOCUMENTS, embedding_cache, last, firstStored, firstReturned>>

\* response = client.embeddings.create(model=model, input=text)
\* embedding = response.data[0].embedding
ThreadIsAnswered(t) ==
    /\ threads[t].pc = "calling"
    /\ \E response \in EmbeddingsCreate(threads[t].text, threads[t].model) :
         threads' = [threads EXCEPT ![t] =
                       IF response.ok
                       THEN [@ EXCEPT !.pc = "storing", !.calls = <<response>>,
                                      !.value = response.vector]
                       ELSE [@ EXCEPT !.pc = "done", !.calls = <<response>>,
                                      !.status = "raise",
                                      !.error = response.error]]
    /\ UNCHANGED <<DOCUMENTS, embedding_cache, last, firstStored, firstReturned>>

\* _embedding_cache[cache_key] = embedding; return embedding
ThreadStores(t) ==
    /\ threads[t].pc = "storing"
    /\ embedding_cache' =
         StoreEmbedding(embedding_cache,
                        CacheKey(threads[t].model, threads[t].text),
                        threads[t].value)
    /\ threads' = [threads EXCEPT ![t] = [@ EXCEPT !.pc = "done", !.status = "ok"]]
    /\ UNCHANGED <<DOCUMENTS, last, firstStored, firstReturned>>

NextConcurrent ==
    \/ \E t \in Threads, text \in Queries, model \in Models :
           ThreadLooksUp(t, text, model)
    \/ \E t \in Threads : ThreadIsAnswered(t)
    \/ \E t \in Threads : ThreadStores(t)

SpecConcurrent == InitLoaded /\ [][NextConcurrent]_vars

---------------------------------------------------------------------------
(* The retrieval core of the rag-qa demo (rag-qa/knowledge_base.py), which *)
(* is a module of its own with the same function names.  Its definitions   *)
(* carry the suffix _rag_qa.  The embedding service and Python's sort and  *)
(* slice are the same for both modules.                                    *)

\* the DOCUMENTS literal of the rag-qa module (abridged as SourceDocuments)
DOCUMENTS_rag_qa ==
  << [id |-> "doc1", title |-> "PythonABC",
      content |-> "Python is a programming language created by Guido van Rossum in 1991, with a concise readable sy"],
     [id |-> "doc2", title |-> "FastAPI_ov",
      content |-> "FastAPI is a modern web framework for building APIs with Python, with high performance and auto "],
     [id |-> "doc3", title |-> "RAG_arch",
      content |-> "RAG (Retrieval-Augmented Generation) combines retrieval and generation: it retrieves relevant documents firs"],
     [id |-> "doc4", title |-> "Vector_DB",
      content |-> "A vector database stores embedding vectors and performs similarity search: Pinecone, Weaviat"],
     [id |-> "doc5", title |-> "Prompt_eng",
      content |-> "Prompt engineering designs the input prompt to get the desired output from an LLM: ins"] >>

\* mutant: the key of the rag-qa module holds the whole text
get_embedding_rag_qa_full_text_key(cache, text, model) ==
    LET cache_key == model \o ":" \o text IN
    IF cache_key \in DOMAIN cache
    THEN {[cache |-> cache, calls |-> <<>>, status |-> "ok",
           value |-> cache[cache_key], error |-> ""]}
    ELSE {IF response.ok
          THEN [cache |-> [k \in DOMAIN cache \cup {cache_key} |->
                             IF k = cache_key THEN response.vector ELSE cache[k]],
                calls |-> <<response>>, status |-> "ok",
                value |-> response.vector, error |-> ""]
          ELSE [cache |-> cache, calls |-> <<response>>, status |-> "raise",
                value |-> <<>>, error |-> response.error]
          : response \in {[text |-> text, model |-> model, ok |-> TRUE, vector |-> v, error |-> ""]
                            : v \in EmbedVectors(text)}
                         \cup {[text |-> text, model |-> model, ok |-> FALSE, vector |-> <<>>, error |-> e]
                            : e \in {"NetworkError", "QuotaError"}}}

\* get_embedding of the rag-qa module
get_embedding_rag_qa(cache, text, model) ==
    LET cache_key == model \o ":" \o SubSeq(text, 1, Min(PrefixLen, Len(text))) IN
    IF cache_key \in DOMAIN cache
    THEN {[cache |-> cache, calls |-> <<>>, status |-> "ok",
           value |-> cache[cache_key], error |-> ""]}
    ELSE {IF response.ok
          THEN [cache |-> [k \in DOMAIN cache \cup {cache_key} |->
                             IF k = cache_key THEN response.vector ELSE cache[k]],
                calls |-> <<response>>, status |-> "ok",
                value |-> response.vector, error |-> ""]
          ELSE [cache |-> cache, calls |-> <<response>>, status |-> "raise",
                value |-> <<>>, error |-> response.error]
          : response \in EmbeddingsCreate(text, model)}

\* cosine_similarity of the rag-qa module: the quotient as numpy's float64,
\* without the conversion to a Python float.  The two are the same number
\* and compare alike.
cosine_similarity_rag_qa(a, b) ==
    LET a_np == a
        b_np == b
    IN IF Len(a_np) # Len(b_np)
       THEN [status |-> "raise", error |-> "ValueError", num |-> 0, den |-> 0]
       ELSE [status |-> "ok", error |-> "", num |-> Dot(a_np, b_np),
             den |-> Norm(a_np) * Norm(b_np)]

\* the for loop of the rag-qa module from document i on
RECURSIVE ScoreDocuments_rag_qa(_, _, _, _, _, _, _)
ScoreDocuments_rag_qa(docs, i, query_embedding, cache, calls, fetched, similarities) ==
    IF i > Len(docs)
    THEN {[cache |-> cache, calls |-> calls, fetched |-> fetched,
           status |-> "ok", error |-> "", similarities |-> similarities]}
    ELSE LET doc_text == docs[i].title \o "\n" \o docs[i].content IN
         UNION {
           LET seen == Append(fetched, Fetch(doc_text, DefaultModel, e)) IN
           IF e.status = "raise"
           THEN {[cache |-> e.cache, calls |-> calls \o e.calls, fetched |-> seen,
                  status |-> "raise", error |-> e.error, similarities |-> <<>>]}
           ELSE LET similarity == cosine_similarity_rag_qa(query_embedding, e.value) IN
                IF similarity.status = "raise"
                THEN {[cache |-> e.cache, calls |-> calls \o e.calls,
                       fetched |-> seen, status |-> "raise",
                       error |-> similarity.error, similarities |-> <<>>]}
                ELSE ScoreDocuments_rag_qa(docs, i + 1, query_embedding, e.cache,
                                           calls \o e.calls, seen,
                                           Append(similarities, <<docs[i], similarity>>))
           : e \in get_embedding_rag_qa(cache, doc_text, DefaultModel) }

\* get_most_relevant_document of the rag-qa module
get_most_relevant_document_rag_qa(docs, cache, query, top_k) ==
    UNION {
        IF q.status = "raise"
        THEN {[cache |-> q.cache, calls |-> q.calls,
               fetched |-> <<Fetch(query, DefaultModel, q)>>,
               status |-> "raise", error |-> q.error, value |-> <<>>,
               scores |-> <<>>]}
        ELSE {[cache |-> r.cache, calls |-> r.calls, fetched |-> r.fetched,
               status |-> r.status, error |-> r.error,
               value |-> IF r.status = "ok"
                         THEN LET top == SliceTo(SortDescending(r.similarities), top_k)
                              IN [i \in 1 .. Len(top) |-> top[i][1]]
                         ELSE <<>>,
               scores |-> [i \in 1 .. Len(r.similarities) |-> r.similarities[i][2]]]
              : r \in ScoreDocuments_rag_qa(docs, 1, q.value, q.cache, q.calls,
                                            <<Fetch(query, DefaultModel, q)>>, <<>>)}
        : q \in get_embedding_rag_qa(cache, query, DefaultModel) }

---------------------------------------------------------------------------
(* generate_answer (observability/app.py): retrieve two documents, build   *)
(* the context, ask the chat model.                                        *)

ChatModel == "gpt-4o-mini"

\* what the chat model may answer with
AnswerTexts == {"RAG combines retrieval and generation.", "I do not know."}

\* client.chat.completions.create: an answer, or an exception
ChatCompletionsCreate(model, context, question) ==
    {[ok |-> TRUE, content |-> a, error |-> ""] : a \in AnswerTexts}
      \cup {[ok |-> FALSE, content |-> "", error |-> e] : e \in ServiceErrors}

\* sep.join(parts)
RECURSIVE Join(_, _)
Join(sep, parts) ==
    IF parts = <<>> THEN ""
    ELSE IF Len(parts) = 1 THEN parts[1]
    ELSE parts[1] \o sep \o Join(sep, Tail(parts))

\* f"[{doc['title']}]\n{doc['content']}"
ContextBlock(doc) == "[" \o doc.title \o "]\n" \o doc.content

\* mutant: three documents are retrieved
generate_answer_top_3(docs, cache, question, model) ==
    UNION {
        IF r.status = "raise"
        THEN {[cache |-> r.cache, calls |-> r.calls, fetched |-> r.fetched,
               status |-> "raise", error |-> r.error, relevant_docs |-> <<>>,
               value |-> <<>>]}
        ELSE LET relevant_docs == r.value
                 context == Join("\n\n", [i \in 1 .. Len(relevant_docs) |->
                                            "[" \o relevant_docs[i].title \o "]\n"
                                                \o relevant_docs[i].content])
             IN {IF response.ok
                 THEN [cache |-> r.cache, calls |-> r.calls, fetched |-> r.fetched,
                       status |-> "ok", error |-> "",
                       relevant_docs |-> relevant_docs,
                       value |-> [answer |-> response.content,
                                  context |-> context,
                                  model |-> model,
                                  sources |-> [i \in 1 .. Len(relevant_docs) |->
                                                 relevant_docs[i].title]]]
                 ELSE [cache |-> r.cache, calls |-> r.calls, fetched |-> r.fetched,
                       status |-> "raise", error |-> response.error,
                       relevant_docs |-> relevant_docs, value |-> <<>>]
                 : response \in {[ok |-> TRUE, content |-> a, error |-> ""] : a \in AnswerTexts}
                      \cup {[ok |-> FALSE, content |-> "", error |-> e] : e \in ServiceErrors}}
        : r \in get_most_relevant_document(docs, cache, question, 3) }

\* The outcomes of generate_answer(question, model): the cache after it, the
\* embedding calls made, the documents retrieved, and the dictionary
\* returned or the exception raised.
generate_answer(docs, cache, question, model) ==
    UNION {
        IF r.status = "raise"
        THEN {[cache |-> r.cache, calls |-> r.calls, fetched |-> r.fetched,
               status |-> "raise", error |-> r.error, relevant_docs |-> <<>>,
               value |-> <<>>]}
        ELSE LET relevant_docs == r.value
                 context == Join("\n\n", [i \in 1 .. Len(relevant_docs) |->
                                            ContextBlock(relevant_docs[i])])
             IN {IF response.ok
                 THEN [cache |-> r.cache, calls |-> r.calls, fetched |-> r.fetched,
                       status |-> "ok", error |-> "",
                       relevant_docs |-> relevant_docs,
                       value |-> [answer |-> response.content,
                                  context |-> context,
                                  model |-> model,
                                  sources |-> [i \in 1 .. Len(relevant_docs) |->
                                                 relevant_docs[i].title]]]
                 ELSE [cache |-> r.cache, calls |-> r.calls, fetched |-> r.fetched,
                       status |-> "raise", error |-> response.error,
                       relevant_docs |-> relevant_docs, value |-> <<>>]
                 : response \in ChatCompletionsCreate(model, context, question)}
        : r \in get_most_relevant_document(docs, cache, question, 2) }

CallGenerateAnswer(question, model) ==
    /\ last.op = "none"
    /\ \E out \in generate_answer(DOCUMENTS, embedding_cache, question, model) :
        /\ embedding_cache' = out.cache
        /\ last' = [op |-> "generate_answer", text |-> question, model |-> model,
                    top_k |-> 2, status |-> out.status, value |-> out.value,
                    error |-> out.error, calls |-> out.calls,
                    fetched |-> out.fetched, scores |-> <<>>]
        /\ firstStored' = RecordStored(firstStored, out.calls)
        /\ firstReturned' = RecordReturned(firstReturned, out.fetched)
    /\ UNCHANGED <<DOCUMENTS, threads>>

NextAnswer ==
    \/ \E question \in Queries : CallGenerateAnswer(question, ChatModel)
    \/ \E text \in Queries, model \in Models : CallGetEmbedding(text, model)
    \/ ReturnToCaller

SpecAnswer == Init /\ [][NextAnswer]_vars

---------------------------------------------------------------------------
(* The blocking guardrail (skills/weave/assets/guardrail_examples.py):     *)
(* generate a response, wait for the scorer, return the response or the    *)
(* refusal.                                                                *)

UpperCase == "ABCDEFGHIJKLMNOPQRSTUVWXYZ"
LowerCase == "abcdefghijklmnopqrstuvwxyz"

\* str.lower() on ASCII text
RECURSIVE Lower(_)
Lower(s) ==
    IF s = "" THEN ""
    ELSE LET c == SubSeq(s, 1, 1)
             up == {i \in 1 .. Len(UpperCase) : SubSeq(UpperCase, i, i) = c}
         IN (IF up = {} THEN c
             ELSE LET i == CHOOSE i \in up : TRUE IN SubSeq(LowerCase, i, i))
              \o Lower(SubSeq(s, 2, Len(s)))

\* term in text
Contains(text, term) ==
    \E i \in 1 .. Len(text) - Len(term) + 1 :
        SubSeq(text, i, i + Len(term) - 1) = term

ToxicTerms == {"harmful", "offensive", "dangerous"}

RefusalMessage == "I'm sorry, I cannot provide that response."

\* mutant: the terms are looked for in the text as it is written
ToxicityGuardrail_score_case_sensitive(output) ==
    LET is_toxic == \E term \in {"harmful", "offensive", "dangerous"} :
                        \E i \in 1 .. Len(output) - Len(term) + 1 :
                            SubSeq(output, i, i + Len(term) - 1) = term
    IN [is_safe |-> ~is_toxic, blocked |-> is_toxic]

\* ToxicityGuardrail.score(output)
ToxicityGuardrail_score(output) ==
    LET is_toxic == \E term \in ToxicTerms : Contains(Lower(output), term)
    IN [is_safe |-> ~is_toxic, blocked |-> is_toxic]

\* what the chat model may generate
GeneratedTexts ==
    {"Paris is the capital of France.",
     "This advice is harmful.",
     "HARMFUL advice follows",
     "An Offensive joke",
     "It is DANGEROUS to do so",
     "unHarmFul",
     "A harmless reply",
     "danger ahead",
     "no offense meant",
     "harmfu",
     "",
     RefusalMessage}

\* generate_response(question): the text generated, or an exception of the
\* chat service
generate_response(question) ==
    {[status |-> "ok", result |-> t, error |-> ""] : t \in GeneratedTexts}
      \cup {[status |-> "raise", result |-> "", error |-> e] : e \in ServiceErrors}

\* result, call = generate_response.call(question)
GuardrailGenerates(question) ==
    /\ last.op = "none"
    /\ \E out \in generate_response(question) :
         last' = [op |-> "blocking_guardrail_example", question |-> question,
                  pc |-> IF out.status = "ok" THEN "generated" ELSE "returned",
                  result |-> out.result, score_result |-> <<>>,
                  status |-> IF out.status = "ok" THEN "running" ELSE "raise",
                  error |-> out.error, value |-> ""]
    /\ UNCHANGED <<DOCUMENTS, embedding_cache, firstStored, firstReturned, threads>>

\* score_result = await call.apply_scorer(guardrail): the scorer runs on the
\* output of the call, and the function goes on when it has finished
GuardrailScores ==
    /\ last.op = "blocking_guardrail_example"
    /\ last.pc = "generated"
    /\ last' = [last EXCEPT !.pc = "scored",
                            !.score_result = <<ToxicityGuardrail_score(last.result)>>]
    /\ UNCHANGED <<DOCUMENTS, embedding_cache, firstStored, firstReturned, threads>>

\* if score_result.result["is_safe"]: return result; else: return the refusal
GuardrailReturns ==
    /\ last.op = "blocking_guardrail_example"
    /\ last.pc = "scored"
    /\ last' = [last EXCEPT !.pc = "returned", !.status = "ok",
                            !.value = IF last.score_result[1].is_safe
                                      THEN last.result
                                      ELSE RefusalMessage]
    /\ UNCHANGED <<DOCUMENTS, embedding_cache, firstStored, firstReturned, threads>>

\* the caller has the reply (or the exception) and goes on
GuardrailCallerGoesOn ==
    /\ last.op = "blocking_guardrail_example"
    /\ last.pc = "returned"
    /\ last' = NoCall
    /\ UNCHANGED <<DOCUMENTS, embedding_cache, firstStored, firstReturned, threads>>

NextGuardrail ==
    \/ \E question \in Queries : GuardrailGenerates(question)
    \/ GuardrailScores
    \/ GuardrailReturns
    \/ GuardrailCallerGoesOn

SpecGuardrail == InitLoaded /\ [][NextGuardrail]_vars

---------------------------------------------------------------------------
(* Properties of the retrieval core *)

\* the key of the contract: model + ":" + text[:100]
KeyString(model, text) ==
    model \o ":" \o SubSeq(text, 1, IF Len(text) < 100 THEN Len(text) ELSE 100)

Ranked == last.op = "get_most_relevant_document" /\ last.status = "ok"

Embedded == last.op = "get_embedding" /\ last.status = "ok"

\* the position of a returned document in the collection
Pos(doc) == CHOOSE p \in 1 .. Len(DOCUMENTS) : DOCUMENTS[p] = doc

\* the cosine similarity of document p to the query of the last call, from
\* the embeddings the cache holds for them
Similarity(p) ==
    cosine_similarity(
        embedding_cache[KeyString(DefaultModel, last.text)],
        embedding_cache[KeyString(DefaultModel,
                                  DOCUMENTS[p].title \o "\n" \o DOCUMENTS[p].content)])

Smaller(x, y) == x.num * y.den < y.num * x.den

ReturnedPositions == {Pos(last.value[i]) : i \in 1 .. Len(last.value)}

\* C1: with a positive top_k, the returned documents are in non-increasing
\* order of their cosine similarity to the query, and no document left out
\* scores higher than a returned one.
C1_DescendingTopK ==
    (Ranked /\ last.top_k > 0) =>
        /\ \A i, j \in 1 .. Len(last.value) :
              i < j => ~Smaller(Similarity(Pos(last.value[i])),
                                Similarity(Pos(last.value[j])))
        /\ \A p \in (1 .. Len(DOCUMENTS)) \ ReturnedPositions :
              \A i \in 1 .. Len(last.value) :
                  ~Smaller(Similarity(Pos(last.value[i])), Similarity(p))

\* a ranking that moved documents: three of five returned, the best one not
\* the first of the collection, a document left out that scores strictly less
C1_Witness ==
    /\ Ranked
    /\ last.top_k = 3
    /\ Len(last.value) = 3
    /\ Pos(last.value[1]) > Pos(last.value[2])
    /\ Smaller(Similarity(Pos(last.value[3])), Similarity(Pos(last.value[1])))
    /\ \E p \in (1 .. Len(DOCUMENTS)) \ ReturnedPositions :
           Smaller(Similarity(p), Similarity(Pos(last.value[3])))

\* C2: documents of equal score come back in collection order: of two
\* documents with equal scores, the one later in the collection is returned
\* only together with, and behind, the earlier one.
C2_StableTies ==
    Ranked =>
        \A i \in 1 .. Len(last.value) :
            \A p \in 1 .. Len(DOCUMENTS) :
                (/\ p < Pos(last.value[i])
                 /\ ~Smaller(Similarity(p), Similarity(Pos(last.value[i])))
                 /\ ~Smaller(Similarity(Pos(last.value[i])), Similarity(p)))
                => \E j \in 1 .. i - 1 : Pos(last.value[j]) = p

\* the example of the contract: scores of the shape [0.9, 0.1, 0.5, 0.9, 0.3]
\* and top_k = 3 give the documents 0, 3, 2 (here positions 1, 4, 3)
C2_Witness ==
    /\ Ranked
    /\ last.top_k = 3
    /\ Len(DOCUMENTS) = 5
    /\ ~Smaller(Similarity(1), Similarity(4)) /\ ~Smaller(Similarity(4), Similarity(1))
    /\ Smaller(Similarity(3), Similarity(1))
    /\ Smaller(Similarity(5), Similarity(3))
    /\ Smaller(Similarity(2), Similarity(5))
    /\ last.value = <<DOCUMENTS[1], DOCUMENTS[4], DOCUMENTS[3]>>

\* C3: with a positive top_k a successful call returns min(top_k, N)
\* documents, and all N of them when top_k is N or more.
C3_LengthIsMin ==
    (Ranked /\ last.top_k > 0) =>
        /\ Len(last.value) = (IF last.top_k < Len(DOCUMENTS)
                              THEN last.top_k ELSE Len(DOCUMENTS))
        /\ last.top_k >= Len(DOCUMENTS) =>
              {last.value[i] : i \in 1 .. Len(last.value)}
                = {DOCUMENTS[p] : p \in 1 .. Len(DOCUMENTS)}

C3_Witness ==
    /\ Ranked
    /\ Len(DOCUMENTS) = 5
    /\ last.top_k = 6
    /\ Len(last.value) = 5

\* C4: with top_k <= 0 a successful call returns the empty sequence.
C4_NonPositiveTopKIsEmpty ==
    (Ranked /\ last.top_k <= 0) => last.value = <<>>

\* the step of a get_embedding call
EmbeddingCall == last.op = "none" /\ last'.op = "get_embedding"

\* C5: a get_embedding call whose key is in the cache returns the stored
\* vector and makes no service call.
C5_HitReturnsStored ==
    [][(EmbeddingCall
          /\ KeyString(last'.model, last'.text) \in DOMAIN embedding_cache)
       => /\ last'.status = "ok"
          /\ last'.value = embedding_cache[KeyString(last'.model, last'.text)]
          /\ last'.calls = <<>>]_vars

C5_Witness ==
    /\ Embedded
    /\ last.calls = <<>>
    /\ last.value = embedding_cache[KeyString(last.model, last.text)]

\* C6: a get_embedding call whose key is not in the cache makes exactly one
\* service call, for its text and model; when the service answers, the
\* vector is returned and stored under model:text[:100], and the rest of the
\* cache is as before.
C6_MissCallsOnceAndStores ==
    [][(EmbeddingCall
          /\ KeyString(last'.model, last'.text) \notin DOMAIN embedding_cache)
       => /\ Len(last'.calls) = 1
          /\ last'.calls[1].text = last'.text
          /\ last'.calls[1].model = last'.model
          /\ last'.calls[1].ok =>
               /\ last'.status = "ok"
               /\ last'.value = last'.calls[1].vector
               /\ DOMAIN embedding_cache' =
                    DOMAIN embedding_cache \cup {KeyString(last'.model, last'.text)}
               /\ embedding_cache'[KeyString(last'.model, last'.text)]
                    = last'.calls[1].vector
               /\ \A k \in DOMAIN embedding_cache :
                    embedding_cache'[k] = embedding_cache[k]]_vars

\* a miss answered by the service, with other keys in the cache
C6_Witness ==
    /\ Embedded
    /\ Len(last.calls) = 1
    /\ Cardinality(DOMAIN embedding_cache) > 1
    /\ embedding_cache[KeyString(last.model, last.text)] = last.value

\* C7: a get_embedding call with the text and model of an earlier successful
\* get_embedding call returns the same vector, and the two calls together
\* make at most one service call.
C7_SameArgumentsSameVector ==
    [][(EmbeddingCall /\ last'.status = "ok"
          /\ <<last'.text, last'.model>> \in DOMAIN firstReturned)
       => /\ last'.value = firstReturned[<<last'.text, last'.model>>].vector
          /\ firstReturned[<<last'.text, last'.model>>].ncalls
               + Len(last'.calls) <= 1]_vars

\* the second of two calls: the first one asked the service, this one did not
C7_Witness ==
    /\ Embedded
    /\ last.calls = <<>>
    /\ firstReturned[<<last.text, last.model>>].ncalls = 1
    /\ firstReturned[<<last.text, last.model>>].vector = last.value

\* C8: every successful get_embedding call returns the vector of the first
\* successful service call for its (model, first 100 characters) pair.
C8_FirstVectorForPrefix ==
    Embedded =>
        /\ PrefixPair(last.model, last.text) \in DOMAIN firstStored
        /\ last.value = firstStored[PrefixPair(last.model, last.text)].vector

\* a text answered with the vector computed for another text of the same
\* first 100 characters
C8_Witness ==
    /\ Embedded
    /\ last.text = LongY
    /\ firstStored[PrefixPair(last.model, last.text)].text = LongX
    /\ last.value = firstStored[PrefixPair(last.model, last.text)].vector

\* C9: no step removes a key from the cache or changes the vector of a key.
C9_InsertOnly ==
    [][\A k \in DOMAIN embedding_cache :
          /\ k \in DOMAIN embedding_cache'
          /\ embedding_cache'[k] = embedding_cache[k]]_vars

\* a call that failed after entries were stored
C9_Witness ==
    /\ last.status = "raise"
    /\ last.op = "get_most_relevant_document"
    /\ Len(last.calls) > 1
    /\ Cardinality(DOMAIN embedding_cache) > 1

\* C10: a get_embedding call that raises made exactly one service call, the
\* failed one, and raises the error of that call.
C10_FailurePropagatesNoRetry ==
    (last.op = "get_embedding" /\ last.status = "raise") =>
        /\ Len(last.calls) = 1
        /\ ~last.calls[1].ok
        /\ last.calls[1].text = last.text
        /\ last.calls[1].model = last.model
        /\ last.error = last.calls[1].error

C10_Witness ==
    /\ last.op = "get_embedding"
    /\ last.status = "raise"
    /\ last.error = "QuotaError"
    /\ Len(last.calls) = 1

Requested == last.op = "get_most_relevant_document"

\* the service calls of the last request that failed
FailedCalls == {i \in 1 .. Len(last.calls) : ~last.calls[i].ok}

\* C11: when the service call for the query text fails,
\* get_most_relevant_document raises the error of that call, and the failed
\* call is the only service call of the request: no document is fetched.
C11_QueryFailureFailsFast ==
    (Requested /\ last.fetched[1].status = "raise") =>
        /\ last.status = "raise"
        /\ Len(last.calls) = 1
        /\ last.calls[1].text = last.text
        /\ ~last.calls[1].ok
        /\ last.error = last.calls[1].error
        /\ Len(last.fetched) = 1

\* the query failed on a collection of five documents none of which is cached
C11_Witness ==
    /\ Requested
    /\ last.fetched[1].status = "raise"
    /\ last.error = "NetworkError"
    /\ Len(DOCUMENTS) = 5
    /\ \A p \in 1 .. Len(DOCUMENTS) :
          KeyString(DefaultModel, DOCUMENTS[p].title \o "\n" \o DOCUMENTS[p].content)
              \notin DOMAIN embedding_cache

\* C12: a get_most_relevant_document call in which a service call failed,
\* for the query or for any document, raises the error of that call and
\* returns no documents.
C12_AllOrNothing ==
    (Requested /\ FailedCalls # {}) =>
        /\ last.status = "raise"
        /\ last.value = <<>>
        /\ \A i \in FailedCalls : i = Len(last.calls) /\ last.error = last.calls[i].error

\* the third document failed after the query and two documents had succeeded
C12_Witness ==
    /\ Requested
    /\ last.top_k = 2
    /\ Len(last.fetched) = 4
    /\ last.fetched[4].status = "raise"
    /\ \A i \in 1 .. 3 : last.fetched[i].status = "ok"
    /\ last.status = "raise"
    /\ last.value = <<>>

\* C13 as stated: on an empty collection every get_most_relevant_document
\* call returns the empty sequence and none ends in an error.
C13_EmptyCollectionNeverFails ==
    (Requested /\ DOCUMENTS = <<>>) =>
        /\ last.status = "ok"
        /\ last.value = <<>>

\* C13: on an empty collection a get_most_relevant_document call whose
\* query embedding was obtained (from the cache or from the service)
\* returns the empty sequence without an error, whatever the query and
\* top_k; the only fetch of the call is the one for the query.
C13_EmptyCollectionEmptyResult ==
    (Requested /\ DOCUMENTS = <<>> /\ last.fetched[1].status = "ok") =>
        /\ last.status = "ok"
        /\ last.value = <<>>
        /\ Len(last.fetched) = 1

\* a call on the empty collection whose query the service answered
C13_Witness ==
    /\ Requested
    /\ DOCUMENTS = <<>>
    /\ last.top_k = 3
    /\ Len(last.calls) = 1
    /\ last.calls[1].ok
    /\ last.status = "ok"
    /\ last.value = <<>>

\* C14: a get_most_relevant_document call with the empty query string, in
\* which no service call failed and no two vectors of different lengths
\* were compared, does not raise and returns the empty sequence.
C14_EmptyQueryEmptyResult ==
    (Requested /\ last.text = "" /\ FailedCalls = {} /\ last.error # "ValueError") =>
        /\ last.status = "ok"
        /\ last.value = <<>>

\* the fetches of the last request, after the one of the query, that gave a
\* vector of another length than the query embedding
Mismatches ==
    {i \in 2 .. Len(last.fetched) :
        /\ last.fetched[i].status = "ok"
        /\ Len(last.fetched[i].value) # Len(last.fetched[1].value)}

\* C15: when a document embedding has another length than the query
\* embedding, get_most_relevant_document raises ValueError at that document:
\* no document is returned, no score is produced, and the two vectors are
\* in the cache as the service gave them.
C15_LengthMismatchRaises ==
    (Requested /\ Mismatches # {}) =>
        /\ last.status = "raise"
        /\ last.error = "ValueError"
        /\ last.value = <<>>
        /\ last.scores = <<>>
        /\ Mismatches = {Len(last.fetched)}
        /\ \A i \in {1, Len(last.fetched)} :
              embedding_cache[KeyString(DefaultModel, last.fetched[i].text)]
                  = last.fetched[i].value

\* a query embedding of length 1 met a document embedding of length 2
C15_Witness ==
    /\ Requested
    /\ last.error = "ValueError"
    /\ Len(last.fetched) = 2
    /\ last.fetched[1].value = <<1>>
    /\ last.fetched[2].value = <<3, 4>>
    /\ Len(DOCUMENTS) = 5

Computed == last.op = "cosine_similarity" /\ last.status = "ok"

NonZero(a) == \E i \in 1 .. Len(a) : a[i] # 0

Negated(a) == [i \in 1 .. Len(a) |-> 0 - a[i]]

RECURSIVE InnerProduct(_, _, _)
InnerProduct(a, b, i) ==
    IF i > Len(a) THEN 0 ELSE a[i] * b[i] + InnerProduct(a, b, i + 1)

SquaredNorm(a) == InnerProduct(a, a, 1)

\* the norm of a is an integer
IntegerNorm(a) == \E n \in 0 .. SquaredNorm(a) : n * n = SquaredNorm(a)

\* 2^k as a natural number of any size
BigPow2(k) ==
    [i \in 1 .. k \div LimbBits + 1 |->
        IF i = k \div LimbBits + 1 THEN Pow2(k % LimbBits) ELSE 0]

FloatOne == Finite(1, BigPow2(52), 0 - 52)

FloatMinusOne == Finite(0 - 1, BigPow2(52), 0 - 52)

\* the finite float r is d / sqrt(n) for the integers d # 0 and n > 0, up to
\* a relative error of 5 * 2^-53:
\*   (|d| (2^53 - 5))^2  <=  mant^2 * 2^(2 exp + 106) * n  <=  (|d| (2^53 + 5))^2
NearQuotient(r, d, n) ==
    LET abs == Big(IF d < 0 THEN 0 - d ELSE d)
        t == 2 * r.exp + 106
        mid == BigMul(BigMul(BigMul(r.mant, r.mant), Big(n)),
                      BigPow2(IF t > 0 THEN t ELSE 0))
        lo == BigMul(abs, BigSub(BigPow2(53), Big(5)))
        hi == BigMul(abs, AddFrom(BigPow2(53), Big(5), 1, 0))
        scale == BigPow2(IF t < 0 THEN 0 - t ELSE 0)
    IN /\ r.class = "finite"
       /\ r.sign = (IF d < 0 THEN 0 - 1 ELSE 1)
       /\ ~BigLess(mid, BigMul(BigMul(lo, lo), scale))
       /\ ~BigLess(BigMul(BigMul(hi, hi), scale), mid)

C17_DocumentsNeverMutated == [][DOCUMENTS' = DOCUMENTS]_vars

\* a ranking that put another document first, with the collection as loaded
C17_Witness ==
    /\ Ranked
    /\ Len(last.value) >= 2
    /\ last.value[1] # DOCUMENTS[1]
    /\ last.value[2] = DOCUMENTS[1]
    /\ DOCUMENTS = SourceDocuments

\* the step of a get_most_relevant_document call
RequestCall == last.op = "none" /\ last'.op = "get_most_relevant_document"

\* every document of the collection has its key in the cache
AllDocumentsCached ==
    \A p \in 1 .. Len(DOCUMENTS) :
        KeyString(DefaultModel, DOCUMENTS[p].title \o "\n" \o DOCUMENTS[p].content)
            \in DOMAIN embedding_cache

\* C18: once a get_most_relevant_document call has succeeded, every
\* document's key is in the cache, and it stays there; and a
\* get_most_relevant_document call that starts with every document's key in
\* the cache makes no service call for a document: it makes at most one
\* service call, for its query, and none when the key of the query is in
\* the cache.
C18_LaterCallsHitTheCache ==
    [][/\ Ranked' => AllDocumentsCached'
       /\ AllDocumentsCached => AllDocumentsCached'
       /\ (RequestCall /\ AllDocumentsCached) =>
            /\ Len(last'.calls) <= 1
            /\ \A i \in 1 .. Len(last'.calls) : last'.calls[i].text = last'.text
            /\ \A i \in 2 .. Len(last'.fetched) : last'.fetched[i].ncalls = 0
            /\ KeyString(DefaultModel, last'.text) \in DOMAIN embedding_cache
                 => last'.calls = <<>>]_vars

\* a ranking of the five documents for a new query: six fetches, one service
\* call, the one for the query
C18_Witness ==
    /\ Ranked
    /\ Len(DOCUMENTS) = 5
    /\ Len(last.fetched) = 6
    /\ Len(last.calls) = 1
    /\ last.calls[1].text = last.text
    /\ last.fetched[1].ncalls = 1
    /\ Cardinality(DOMAIN embedding_cache) > 6

\* the texts of the fetches of the last request that asked the service
RECURSIVE TextsAsked(_)
TextsAsked(fetched) ==
    IF fetched = <<>>
    THEN <<>>
    ELSE (IF Head(fetched).ncalls = 1 THEN <<Head(fetched).text>> ELSE <<>>)
            \o TextsAsked(Tail(fetched))

\* C19: the fetches of a get_most_relevant_document call are the query
\* first and then the documents in collection order, one after the other:
\* a fetch is made only when all fetches before it have succeeded, the
\* service calls are made in the order of the fetches, and a ranking is
\* returned only when the embedding of the last document has been obtained.
C19_FetchOrder ==
    Requested =>
        /\ Len(last.fetched) >= 1
        /\ Len(last.fetched) <= Len(DOCUMENTS) + 1
        /\ last.fetched[1].text = last.text
        /\ \A i \in 2 .. Len(last.fetched) :
              /\ last.fetched[i].text =
                    DOCUMENTS[i - 1].title \o "\n" \o DOCUMENTS[i - 1].content
              /\ last.fetched[i - 1].status = "ok"
        /\ [i \in 1 .. Len(last.calls) |-> last.calls[i].text]
              = TextsAsked(last.fetched)
        /\ last.status = "ok" =>
              /\ Len(last.fetched) = Len(DOCUMENTS) + 1
              /\ last.fetched[Len(last.fetched)].status = "ok"
              /\ Len(last.scores) = Len(DOCUMENTS)

\* a ranking from the empty cache: six service calls, the query's and the
\* five documents' in collection order
C19_Witness ==
    /\ Ranked
    /\ Len(DOCUMENTS) = 5
    /\ Len(last.calls) = 6
    /\ last.calls[1].text = last.text
    /\ \A i \in 2 .. 6 :
          last.calls[i].text =
              DOCUMENTS[i - 1].title \o "\n" \o DOCUMENTS[i - 1].content
    /\ Len(last.value) = 2

\* C20: a get_embedding call answered from the cache returns a vector that
\* the service computed for the call's own (model, first 100 characters)
\* pair: the entry it reads was not stored by a call of another pair.
C20_DistinctPairsNeverShare ==
    (Embedded /\ last.calls = <<>>) =>
        /\ PrefixPair(last.model, last.text) \in DOMAIN firstStored
        /\ last.value = firstStored[PrefixPair(last.model, last.text)].vector

\* the float r is a number between -1 and 1
InUnitRange(r) ==
    /\ r.class = "finite"
    /\ \/ r.mant = <<>>
       \/ r.exp < 0 - 52
       \/ r.exp = 0 - 52 /\ r.mant = BigPow2(52)

\* C21: for two vectors of equal length cosine_similarity returns a number
\* in the range [-1, 1], also when one of the vectors has zero norm.
C21_ResultInUnitRange ==
    Computed => InUnitRange(last.value)


\* the threads whose get_embedding call asked the service for the key
ServiceCallsFor(key) ==
    {t \in Threads : /\ threads[t].calls # <<>>
                     /\ CacheKey(threads[t].model, threads[t].text) = key}

\* every cache entry is a vector that the service gave for a text of its key
CacheHoldsAnswers ==
    \A key \in DOMAIN embedding_cache :
        \E t \in ServiceCallsFor(key) :
            /\ threads[t].calls[1].ok
            /\ threads[t].calls[1].vector = embedding_cache[key]

\* C22: when get_embedding calls for the same uncached key run concurrently
\* and none of them fails, the cache holds only vectors that the service
\* gave for the key, and the service is called at most twice for the key,
\* whatever the number of callers.
C22_AtMostOneDuplicateCall ==
    (\A t \in Threads : threads[t].error = "") =>
        /\ CacheHoldsAnswers
        /\ \A t \in Threads :
               Cardinality(ServiceCallsFor(CacheKey(threads[t].model,
                                                    threads[t].text))) <= 2


\* C30: under interleaved get_embedding calls for one cache key, a stored
\* entry is never overwritten with a different vector, and every vector that
\* a caller was returned is the vector the cache holds for the key afterwards.
C30_NoOverwriteNoStaleReturn ==
    [][/\ \A key \in DOMAIN embedding_cache :
              embedding_cache'[key] = embedding_cache[key]
       /\ \A t \in Threads :
              threads'[t].pc = "done" /\ threads'[t].status = "ok" =>
                  threads'[t].value =
                      embedding_cache'[CacheKey(threads'[t].model,
                                                threads'[t].text)]]_vars


\* the rag-qa module loaded with as many of its documents as DOCUMENTS has
LoadedRagQa == SubSeq(DOCUMENTS_rag_qa, 1, Len(DOCUMENTS))

\* C23: the two modules are equivalent.  Between two calls, whatever the
\* cache holds, each get_embedding and each get_most_relevant_document call
\* has the same outcomes in the rag-qa module as in the observability
\* module: for the same answers of the service, the same service calls, the
\* same cache afterwards and the same result or error.  (Every sequence of
\* calls then runs alike in both, one call after the other.)
C23_ModulesEquivalent ==
    last.op = "none" =>
        /\ \A text \in Queries, model \in Models :
               get_embedding_rag_qa(embedding_cache, text, model)
                   = get_embedding(embedding_cache, text, model)
        /\ \A query \in Queries, top_k \in TopKs :
               get_most_relevant_document_rag_qa(LoadedRagQa, embedding_cache,
                                                 query, top_k)
                   = get_most_relevant_document(DOCUMENTS, embedding_cache,
                                                query, top_k)

\* a ranking has succeeded in both modules on a cache that already held
\* some of the keys, and the caller is about to call again
C23_Witness ==
    /\ last.op = "none"
    /\ Cardinality(DOMAIN embedding_cache) = Len(DOCUMENTS) + 1
    /\ Len(DOCUMENTS) = Len(SourceDocuments)
    /\ \E out \in get_most_relevant_document_rag_qa(LoadedRagQa, embedding_cache,
                                                    LongY, 2) :
           out.status = "ok" /\ Len(out.value) = 2 /\ out.calls = <<>>


\* generate_answer has returned its dictionary
Answered == last.op = "generate_answer" /\ last.status = "ok"

\* C24: the context and the sources of generate_answer come from exactly
\* the documents that get_most_relevant_document(question, top_k=2) returns
\* in that call, in rank order: sources[i] is the title of the i-th ranked
\* document, the context is the blocks "[title]\ncontent" of these documents
\* in the same order with an empty line between them, and there are at most
\* two documents.
C24_AnswerUsesRankedDocuments ==
    [][Answered' =>
         \E r \in get_most_relevant_document(DOCUMENTS, embedding_cache,
                                             last'.text, 2) :
             /\ r.status = "ok"
             /\ r.calls = last'.calls
             /\ r.cache = embedding_cache'
             /\ Len(r.value) <= 2
             /\ Len(last'.value.sources) = Len(r.value)
             /\ \A i \in 1 .. Len(r.value) :
                    last'.value.sources[i] = r.value[i].title
             /\ last'.value.context =
                  IF Len(r.value) = 0 THEN ""
                  ELSE IF Len(r.value) = 1
                  THEN "[" \o r.value[1].title \o "]\n" \o r.value[1].content
                  ELSE "[" \o r.value[1].title \o "]\n" \o r.value[1].content
                         \o "\n\n"
                         \o "[" \o r.value[2].title \o "]\n" \o r.value[2].content]_vars

\* an answer was built from two documents, the higher ranked one standing
\* later in the collection
C24_Witness ==
    /\ Answered
    /\ Len(last.value.sources) = 2
    /\ \E i, j \in 1 .. Len(DOCUMENTS) :
           /\ i > j
           /\ DOCUMENTS[i].title = last.value.sources[1]
           /\ DOCUMENTS[j].title = last.value.sources[2]


\* the one-character strings c and d are the same letter, whatever the case
SameLetter(c, d) ==
    \/ c = d
    \/ \E i \in 1 .. Len(UpperCase) :
           {c, d} = {SubSeq(UpperCase, i, i), SubSeq(LowerCase, i, i)}

\* the text contains one of the toxic terms, in any mix of cases
HasToxicTerm(text) ==
    \E term \in {"harmful", "offensive", "dangerous"} :
        \E i \in 1 .. Len(text) - Len(term) + 1 :
            \A j \in 1 .. Len(term) :
                SameLetter(SubSeq(text, i + j - 1, i + j - 1), SubSeq(term, j, j))

GuardrailReplied ==
    /\ last.op = "blocking_guardrail_example"
    /\ last.pc = "returned"
    /\ last.status = "ok"

\* C25: blocking_guardrail_example returns nothing before the scorer has
\* finished; when it returns the generated text, the scorer has reported
\* is_safe = true; and when the generated text contains a toxic term, in
\* whatever case, it returns the refusal message and not the generated text.
C25_GuardrailBlocks ==
    /\ last.op = "blocking_guardrail_example" /\ last.score_result = <<>> =>
           ~GuardrailReplied /\ last.value = ""
    /\ GuardrailReplied /\ last.value = last.result =>
           last.score_result # <<>> /\ last.score_result[1].is_safe
    /\ GuardrailReplied /\ HasToxicTerm(last.result) =>
           last.value = RefusalMessage /\ last.value # last.result

\* a text with a toxic term in capitals was generated and the refusal returned
C25_Witness ==
    /\ GuardrailReplied
    /\ last.result = "HARMFUL advice follows"
    /\ last.value = RefusalMessage


\* a get_embedding call has just failed
EmbeddingFailed == last.op = "get_embedding" /\ last.status = "raise"

\* C26: a get_embedding call in which the service call fails leaves the
\* cache exactly as it was: the failing key has no entry, and a
\* get_embedding call for that key made next asks the service again.
C26_FailureLeavesCache ==
    [][EmbeddingFailed' =>
         /\ embedding_cache' = embedding_cache
         /\ CacheKey(last'.model, last'.text) \notin DOMAIN embedding_cache'
         /\ \A text \in Queries :
                CacheKey(last'.model, text) = CacheKey(last'.model, last'.text) =>
                    \A e \in get_embedding(embedding_cache', text, last'.model) :
                        Len(e.calls) = 1]_vars

\* a call for a long text failed on a cache that holds other entries
C26_Witness ==
    /\ EmbeddingFailed
    /\ last.text = LongX
    /\ Len(last.calls) = 1
    /\ embedding_cache # EmptyMap


\* a get_most_relevant_document call has just failed in the service call for
\* the embedding of a document
FailedAtDocument ==
    /\ Requested
    /\ last.status = "raise"
    /\ Len(last.fetched) >= 2
    /\ last.fetched[Len(last.fetched)].status = "raise"

\* C27: a get_most_relevant_document call that fails at the embedding of a
\* document does not roll the cache back: what the cache held before is
\* still there, the query and the documents embedded before the failure are
\* in the cache with the vectors the call worked with, and a retry of the
\* same call asks the service only for keys that the cache does not hold.
C27_NoRollback ==
    [][FailedAtDocument' =>
         /\ \A key \in DOMAIN embedding_cache :
                /\ key \in DOMAIN embedding_cache'
                /\ embedding_cache'[key] = embedding_cache[key]
         /\ \A n \in 1 .. Len(last'.fetched) - 1 :
                LET f == last'.fetched[n]
                    key == CacheKey(f.model, f.text)
                IN /\ f.status = "ok"
                   /\ key \in DOMAIN embedding_cache'
                   /\ embedding_cache'[key] = f.value
         /\ \A retry \in get_most_relevant_document(DOCUMENTS, embedding_cache',
                                                    last'.text, last'.top_k) :
                \A n \in 1 .. Len(retry.calls) :
                    CacheKey(retry.calls[n].model, retry.calls[n].text)
                        \notin DOMAIN embedding_cache']_vars

\* the call failed at the third document or later, after the service had
\* answered for the query and for a document in this same call
C27_Witness ==
    /\ FailedAtDocument
    /\ Len(last.fetched) >= 4
    /\ Len(last.calls) >= 3
    /\ last.calls[1].ok /\ last.calls[2].ok
    /\ last.calls[1].text = last.text


\* C28: a successful get_most_relevant_document result holds documents of
\* the collection only, and no document twice: it is the beginning of a
\* rearrangement of the collection (whose documents are all different).
C28_PrefixOfPermutation ==
    Ranked =>
        /\ \A p, q \in 1 .. Len(DOCUMENTS) : p # q => DOCUMENTS[p] # DOCUMENTS[q]
        /\ Len(last.value) <= Len(DOCUMENTS)
        /\ \A i \in 1 .. Len(last.value) :
               \E p \in 1 .. Len(DOCUMENTS) : DOCUMENTS[p] = last.value[i]
        /\ \A i, j \in 1 .. Len(last.value) :
               i # j => last.value[i] # last.value[j]

\* a request for more documents than there are returned the whole
\* collection, in another order than the collection's
C28_Witness ==
    /\ Ranked
    /\ last.top_k > Len(DOCUMENTS)
    /\ Len(last.value) = Len(SourceDocuments)
    /\ last.value # DOCUMENTS


\* the cache holds the key of the query and the key of every document
RankingCached(query) ==
    /\ KeyString(DefaultModel, query) \in DOMAIN embedding_cache
    /\ AllDocumentsCached

\* how get_most_relevant_document(query, top_k) can end on the given
\* collection and cache: the service calls made, the documents returned or
\* the error raised
RankingResults(docs, cache, query, top_k) ==
    {[calls |-> r.calls, status |-> r.status, value |-> r.value, error |-> r.error]
       : r \in get_most_relevant_document(docs, cache, query, top_k)}

\* C29: once get_most_relevant_document(q, k) has succeeded, every later
\* call with the same q and k returns the same list of documents.  Step by
\* step: after a successful call the cache holds the keys of q and of every
\* document, and the list returned is the one and only result of the call on
\* that cache, reached without a service call; and no step of any call,
\* whatever the service answers in it, changes the result of a call whose
\* keys the cache holds.
C29_RepeatReturnsSameList ==
    [][/\ Ranked' =>
            /\ KeyString(DefaultModel, last'.text) \in DOMAIN embedding_cache'
            /\ AllDocumentsCached'
            /\ RankingResults(DOCUMENTS', embedding_cache', last'.text, last'.top_k)
                 = {[calls |-> <<>>, status |-> "ok", value |-> last'.value,
                     error |-> ""]}
       /\ \/ embedding_cache' = embedding_cache /\ DOCUMENTS' = DOCUMENTS
          \/ \A query \in Queries :
                 RankingCached(query) =>
                     \A top_k \in TopKs :
                         RankingResults(DOCUMENTS', embedding_cache', query, top_k)
                           = RankingResults(DOCUMENTS, embedding_cache, query, top_k)]_vars

\* a ranking of two documents or more was returned with every vector taken
\* from the cache, where the vector of the query had come from the service
\* in an earlier call
C29_Witness ==
    /\ Ranked
    /\ last.calls = <<>>
    /\ Len(last.value) >= 2
    /\ <<last.text, DefaultModel>> \in DOMAIN firstReturned
    /\ firstReturned[<<last.text, DefaultModel>>].ncalls = 1

=============================================================================
